---- MODULE Spec2Model ----
(***************************************************************************)
(* A model of the train freight system: stations joined by timed edges,   *)
(* capacity-limited trains, packages, the registration calls, and the     *)
(* delivery loop of TrainFreightSystem::deliver_packages, one step per    *)
(* call it makes.                                                          *)
(***************************************************************************)
EXTENDS Integers, Sequences, FiniteSets, TLC

VARIABLES
    nodes,                \* TrainFreightSystem.nodes: Seq of [id, edges]
    trains,               \* TrainHandler.trains: Seq of [id, max_capacity, status, load_size]
    packages,             \* PackageHandler.packages: Seq of [id, weight, destination, status]
    pc,                   \* position inside deliver_packages ("idle" between calls)
    node_index,           \* the station the dispatch pass is at (1-based)
    total_delivery_time,  \* the local of deliver_packages
    travel_time,          \* the value train_arrived returned in this iteration
    result,               \* what the last call returned ("ok"/"err" or minutes), with its kind
    report,               \* the report lines printed by the current iteration
    start,                \* trains and packages as they were when deliver_packages was called
    query                 \* the last route query and its answer (route specification only)

vars == <<nodes, trains, packages, pc, node_index, total_delivery_time,
          travel_time, result, report, start, query>>

-----------------------------------------------------------------------------
(* Bounds of the model.                                                    *)

MaxNodes == 3
MaxEdges == 2
MaxTrains == 2
MaxPackages == 2
MaxTotal == 200
MaxRouteEdges == 3
MaxTime == 2
MaxRegEdges == 2
MaxRegTrains == 1
MaxRegPackages == 1

NodeNames == <<"A", "B", "C", "D">>
EdgeNames == <<"E1", "E2", "E3", "E4">>
TrainNames == <<"Q1", "Q2", "Q3">>
PackageNames == <<"K1", "K2", "K3", "K4">>

\* The values of a call are those of the repository's test, by the position
\* of the name: E1 takes 30 minutes and E2 10, Q1 carries 6 and Q2 30, K1
\* weighs 5 and K2 25.
EdgeTimes == <<30, 10, 30, 10>>
TrainCapacities == <<6, 30, 6>>
PackageWeights == <<5, 25, 5, 25>>

-----------------------------------------------------------------------------
(* Sequence helpers.                                                       *)

Range(s) == {s[i] : i \in 1..Len(s)}

Contains(s, x) == \E i \in 1..Len(s) : s[i] = x

\* iter().position(pred): the first index, 0 for None
RECURSIVE PositionFrom(_, _, _)
PositionFrom(s, x, i) ==
    IF i > Len(s) THEN 0
    ELSE IF s[i] = x THEN i
    ELSE PositionFrom(s, x, i + 1)

RECURSIVE Reverse(_)
Reverse(s) == IF s = <<>> THEN <<>> ELSE Append(Reverse(Tail(s)), Head(s))

Ids(s) == [i \in 1..Len(s) |-> s[i].id]

-----------------------------------------------------------------------------
(* Statuses: tagged values, one shape per enum so that they compare.       *)

\* train::Status
StoppedAt(n) == [kind |-> "StoppedAt", origin |-> n, destination |-> "", time |-> 0]
DeliveringTo(o, d, t) == [kind |-> "DeliveringTo", origin |-> o, destination |-> d, time |-> t]

\* package::Status
Completed == [kind |-> "Completed", node |-> "", train |-> ""]
DroppedAt(n, t) == [kind |-> "DroppedAt", node |-> n, train |-> t]
LoadedTo(t) == [kind |-> "LoadedTo", node |-> "", train |-> t]
Delivered(t) == [kind |-> "Delivered", node |-> "", train |-> t]
CantBeTransported(n) == [kind |-> "CantBeTransported", node |-> n, train |-> ""]

\* TrainId::default()
DefaultTrainId == ""

-----------------------------------------------------------------------------
(* The network: nodes, edges, routes.                                      *)

find_node_index_by_id(ns, node_id) == PositionFrom(Ids(ns), node_id, 1)

find_edge_index_by_id(node, edge_id) == PositionFrom(Ids(node.edges), edge_id, 1)

\* Option<&Edge> as a sequence of at most one edge: the first edge to node_id
find_edge_with_node(node, node_id) ==
    LET hits == SelectSeq(node.edges, LAMBDA e : e.node = node_id)
    IN IF hits = <<>> THEN <<>> ELSE <<hits[1]>>

\* the sum over consecutive stations of the first edge between them; a pair
\* with no edge adds nothing
RECURSIVE travel_time_from(_, _, _)
travel_time_from(ns, routes, i) ==
    IF i > Len(routes) THEN 0
    ELSE LET pos == find_node_index_by_id(ns, routes[i - 1])
             edge == find_edge_with_node(ns[pos], routes[i])
         IN (IF edge = <<>> THEN 0 ELSE edge[1].travel_time)
            + travel_time_from(ns, routes, i + 1)

get_travel_time_from_routes(ns, routes) == travel_time_from(ns, routes, 2)

\* The depth-first enumeration.  The result is the pair of the two &mut
\* arguments as the call leaves them.
RECURSIVE get_all_possible_routes(_, _, _, _, _)
RECURSIVE routes_edge_loop(_, _, _, _, _, _)
get_all_possible_routes(ns, origin, destination, possible_paths, routes) ==
    IF Contains(routes, origin)
    THEN [possible_paths |-> possible_paths, routes |-> routes]
    ELSE LET pushed == Append(routes, origin)
             pos == find_node_index_by_id(ns, origin)
         IN routes_edge_loop(ns, destination, ns[pos].edges, 1, possible_paths, pushed)

routes_edge_loop(ns, destination, edges, k, possible_paths, routes) ==
    IF k > Len(edges)
    THEN [possible_paths |-> possible_paths, routes |-> routes]
    ELSE IF Contains(routes, destination)
    THEN [possible_paths |-> Append(possible_paths, routes), routes |-> routes]
    ELSE LET sub == get_all_possible_routes(ns, edges[k].node, destination,
                                            possible_paths, routes)
             after == IF Contains(sub.routes, destination)
                      THEN Append(sub.possible_paths, sub.routes)
                      ELSE sub.possible_paths
         IN routes_edge_loop(ns, destination, edges, k + 1, after, routes)

\* the loop of get_least_time_path_...: Minute(0) doubles as "none yet"
RECURSIVE least_time_loop(_, _, _, _, _)
least_time_loop(ns, possible_routes, i, least_travel_time, least_travel_time_route) ==
    IF i > Len(possible_routes) THEN least_travel_time_route
    ELSE LET t == get_travel_time_from_routes(ns, possible_routes[i])
         IN IF least_travel_time = 0 \/ t < least_travel_time
            THEN least_time_loop(ns, possible_routes, i + 1, t, possible_routes[i])
            ELSE least_time_loop(ns, possible_routes, i + 1, least_travel_time,
                                 least_travel_time_route)

get_least_time_path_to_move_from_point_a_to_point_b(ns, node_a_id, node_b_id) ==
    LET found == get_all_possible_routes(ns, node_a_id, node_b_id, <<>>, <<>>)
    IN least_time_loop(ns, found.possible_paths, 1, 0, <<>>)

-----------------------------------------------------------------------------
(* Trains.                                                                 *)

\* Train::new followed by Train::set_location
NewTrain(name, max_capacity, location) ==
    [id |-> name, max_capacity |-> max_capacity, status |-> StoppedAt(location),
     load_size |-> 0]

find_train_index_by_id(ts, train_id) == PositionFrom(Ids(ts), train_id, 1)

list_trains_stopped_at_node(ts, node_id) ==
    SelectSeq(ts, LAMBDA t : t.status = StoppedAt(node_id))

\* The scan keeps an index into the filtered list `stopped`, and reads the
\* capacity of the best so far, and the answer, from the full list `ts` at
\* that same index.
RECURSIVE largest_capacity_loop(_, _, _, _)
largest_capacity_loop(ts, stopped, index, biggest_train_index) ==
    IF index > Len(stopped) THEN biggest_train_index
    ELSE IF biggest_train_index = 0
    THEN largest_capacity_loop(ts, stopped, index + 1, index)
    ELSE IF ts[biggest_train_index].max_capacity < stopped[index].max_capacity
    THEN largest_capacity_loop(ts, stopped, index + 1, index)
    ELSE largest_capacity_loop(ts, stopped, index + 1, biggest_train_index)

\* Option<TrainId> as a sequence of at most one id
find_largest_capacity_train_in_node(ts, node_id) ==
    LET stopped == list_trains_stopped_at_node(ts, node_id)
        index == largest_capacity_loop(ts, stopped, 1, 0)
    IN IF index = 0 THEN <<>> ELSE <<ts[index].id>>

MovingTimes(ts) ==
    {ts[i].status.time : i \in {j \in 1..Len(ts) : ts[j].status.kind = "DeliveringTo"}}

\* the greatest time in place of the least
get_moving_train_highest_travel_time(ts) ==
    IF MovingTimes(ts) = {} THEN <<>>
    ELSE <<CHOOSE m \in MovingTimes(ts) : \A n \in MovingTimes(ts) : m >= n>>

\* Option<Minute> as a sequence of at most one value
get_moving_train_lowest_travel_time(ts) ==
    IF MovingTimes(ts) = {} THEN <<>>
    ELSE <<CHOOSE m \in MovingTimes(ts) : \A n \in MovingTimes(ts) : m <= n>>

\* Minute - Minute is unsigned: the subtraction aborts below zero
time_elapsed_aborts(ts, duration) ==
    \E i \in 1..Len(ts) : ts[i].status.kind = "DeliveringTo" /\ ts[i].status.time < duration

time_elapsed(ts, duration) ==
    [i \in 1..Len(ts) |->
        IF ts[i].status.kind = "DeliveringTo"
        THEN LET remaining_time == ts[i].status.time - duration
             IN IF remaining_time = 0
                THEN [ts[i] EXCEPT !.status = StoppedAt(ts[i].status.destination)]
                ELSE [ts[i] EXCEPT !.status =
                         DeliveringTo(ts[i].status.origin, ts[i].status.destination,
                                      remaining_time)]
        ELSE ts[i]]

list_stopped_trains(ts) ==
    Ids(SelectSeq(ts, LAMBDA t : t.status.kind = "StoppedAt"))

\* a load_package that does not look at the room left
load_package_unchecked(train, package) ==
    [train |-> [train EXCEPT !.load_size = train.load_size + package.weight],
     package |-> [package EXCEPT !.status = LoadedTo(train.id)],
     abort |-> FALSE]

\* a load_package that compares the weight with the capacity, not the room
load_package_by_capacity(train, package) ==
    IF package.weight <= train.max_capacity
    THEN [train |-> [train EXCEPT !.load_size = train.load_size + package.weight],
          package |-> [package EXCEPT !.status = LoadedTo(train.id)],
          abort |-> FALSE]
    ELSE [train |-> train, package |-> package, abort |-> FALSE]

\* Train::load_package: the try-load.  [train, package, abort]
train_load_package(train, package) ==
    IF train.max_capacity < train.load_size
    THEN [train |-> train, package |-> package, abort |-> TRUE]
    ELSE LET available_size == train.max_capacity - train.load_size
         IN IF package.weight <= available_size
            THEN [train |-> [train EXCEPT !.load_size = train.load_size + package.weight],
                  package |-> [package EXCEPT !.status = LoadedTo(train.id)],
                  abort |-> FALSE]
            ELSE [train |-> train, package |-> package, abort |-> FALSE]

\* an unload_package that delivers wherever the train stops
unload_package_anywhere(train, package, node) ==
    [train |-> [train EXCEPT !.load_size = train.load_size - package.weight],
     package |-> [package EXCEPT !.status = Delivered(train.id)],
     abort |-> train.load_size < package.weight]

\* an unload_package that leaves the load as it is
unload_package_keeping_load(train, package, node) ==
    [train |-> train,
     package |-> [package EXCEPT !.status = IF package.destination = node
                                            THEN Delivered(train.id)
                                            ELSE DroppedAt(node, train.id)],
     abort |-> FALSE]

\* Train::unload_package at station node.  [train, package, abort]
train_unload_package(train, package, node) ==
    LET status == IF package.destination = node
                  THEN Delivered(train.id)
                  ELSE DroppedAt(node, train.id)
    IN IF train.load_size < package.weight
       THEN [train |-> train, package |-> [package EXCEPT !.status = status],
             abort |-> TRUE]
       ELSE [train |-> [train EXCEPT !.load_size = train.load_size - package.weight],
             package |-> [package EXCEPT !.status = status],
             abort |-> FALSE]

\* TrainHandler::move_to_node (Train::move_to)
move_to_node(ts, train_id, origin, destination, time) ==
    LET pos == find_train_index_by_id(ts, train_id)
    IN [ts EXCEPT ![pos].status = DeliveringTo(origin, destination, time)]

\* TrainHandler::load_package on package number k.  [trains, packages, abort]
load_package(ts, ps, train_id, k) ==
    LET pos == find_train_index_by_id(ts, train_id)
        r == train_load_package(ts[pos], ps[k])
    IN [trains |-> [ts EXCEPT ![pos] = r.train],
        packages |-> [ps EXCEPT ![k] = r.package],
        abort |-> r.abort]

\* the two nested loops of unload_packages_in_trains_that_stopped
RECURSIVE unload_loop(_, _, _, _, _, _)
unload_loop(ts, ps, stopped_ids, i, k, abort) ==
    IF abort \/ i > Len(stopped_ids)
    THEN [trains |-> ts, packages |-> ps, abort |-> abort]
    ELSE IF k > Len(ps) THEN unload_loop(ts, ps, stopped_ids, i + 1, 1, abort)
    ELSE IF ps[k].status = LoadedTo(stopped_ids[i])
    THEN LET pos == find_train_index_by_id(ts, stopped_ids[i])
             r == train_unload_package(ts[pos], ps[k], ts[pos].status.origin)
         IN unload_loop([ts EXCEPT ![pos] = r.train], [ps EXCEPT ![k] = r.package],
                        stopped_ids, i, k + 1, r.abort)
    ELSE unload_loop(ts, ps, stopped_ids, i, k + 1, abort)

\* no package leaves its train
unload_nothing(ts, ps) == [trains |-> ts, packages |-> ps, abort |-> FALSE]

unload_packages_in_trains_that_stopped(ts, ps) ==
    unload_loop(ts, ps, list_stopped_trains(ts), 1, 1, FALSE)

\* Parts of TrainHandler that the dispatcher calls.
get_train(ts, train_id) == ts[find_train_index_by_id(ts, train_id)]

can_accomodate_package(train, package) ==
    package.weight <= train.max_capacity - train.load_size

list_stopped_trains_at_node(ts, node_id) == Ids(list_trains_stopped_at_node(ts, node_id))

can_pacakge_be_transported_by_any_trains(ts, package) ==
    \E i \in 1..Len(ts) : package.weight <= ts[i].max_capacity

-----------------------------------------------------------------------------
(* Packages.                                                               *)

\* a Package::new that never looks at the destination
NewPackageDropped(name, weight, origin, destination) ==
    [id |-> name, weight |-> weight, destination |-> destination,
     status |-> DroppedAt(origin, DefaultTrainId)]

\* Package::new
NewPackage(name, weight, origin, destination) ==
    [id |-> name, weight |-> weight, destination |-> destination,
     status |-> IF origin = destination
                THEN Delivered(DefaultTrainId)
                ELSE DroppedAt(origin, DefaultTrainId)]

find_package_index_by_id(ps, package_id) == PositionFrom(Ids(ps), package_id, 1)

have_undelivered_packages(ps) ==
    \E k \in 1..Len(ps) : ps[k].status.kind \in {"DroppedAt", "LoadedTo"}

\* the ids of the packages dropped at the station, in registration order
list_undelivered_packages_at_node(ps, node_id) ==
    Ids(SelectSeq(ps, LAMBDA p : p.status.kind = "DroppedAt" /\ p.status.node = node_id))

list_undelivered_packages(ps) ==
    Ids(SelectSeq(ps, LAMBDA p : p.status.kind = "DroppedAt"))

list_package_names_in_transit(ps, train_id) ==
    Ids(SelectSeq(ps, LAMBDA p : p.status = LoadedTo(train_id)))

\* an empty list for every train
list_no_package_names(ps, train_id) == <<>>

list_package_names_delivered(ps, train_id) ==
    Ids(SelectSeq(ps, LAMBDA p : p.status = Delivered(train_id)))

get_package(ps, package_id) == ps[find_package_index_by_id(ps, package_id)]

drop_to_origin(package) ==
    IF package.status.kind = "CantBeTransported"
    THEN [package EXCEPT !.status = DroppedAt(package.status.node, DefaultTrainId)]
    ELSE package

\* a set_to_cant_be_transported that freezes nothing
set_to_cant_be_transported_never(package) == package

set_to_cant_be_transported(package) ==
    IF package.status.kind = "DroppedAt"
    THEN [package EXCEPT !.status = CantBeTransported(package.status.node)]
    ELSE package

\* a delist_delivered_packages that sweeps nothing
delist_nothing(ps) == ps

\* every package is made Completed
delist_every_package(ps) == [k \in 1..Len(ps) |-> [ps[k] EXCEPT !.status = Completed]]

delist_delivered_packages(ps) ==
    [k \in 1..Len(ps) |->
        IF ps[k].status.kind = "Delivered"
        THEN [ps[k] EXCEPT !.status = Completed]
        ELSE ps[k]]

-----------------------------------------------------------------------------
(* The dispatcher.                                                         *)

\* get_least_time_path_to_deliver_package: from where the package lies
get_least_time_path_to_deliver_package(ns, package) ==
    get_least_time_path_to_move_from_point_a_to_point_b(ns, package.status.node,
                                                        package.destination)

list_all_undelivered_packages_least_possible_routes(ns, ps) ==
    LET ids == list_undelivered_packages(ps)
    IN [i \in 1..Len(ids) |->
           get_least_time_path_to_deliver_package(ns, get_package(ps, ids[i]))]

\* the packages whose least-time route from node_id to their destination
\* holds node_id
get_packages_passing_to_node(ns, ps, node_id, package_ids) ==
    SelectSeq(package_ids, LAMBDA id :
        Contains(get_least_time_path_to_move_from_point_a_to_point_b(
                     ns, node_id, get_package(ps, id).destination), node_id))

\* a route as long as the one kept replaces it too
RECURSIVE highest_routes_loop_last(_, _, _, _, _)
highest_routes_loop_last(ns, ps, package_ids, i, highest_routes) ==
    IF i > Len(package_ids) THEN highest_routes
    ELSE LET routes == get_least_time_path_to_deliver_package(
                           ns, get_package(ps, package_ids[i]))
         IN highest_routes_loop_last(ns, ps, package_ids, i + 1,
                IF Len(routes) >= Len(highest_routes) THEN routes ELSE highest_routes)

\* the anchor route: a longer route replaces the one kept
RECURSIVE highest_routes_loop(_, _, _, _, _)
highest_routes_loop(ns, ps, package_ids, i, highest_routes) ==
    IF i > Len(package_ids) THEN highest_routes
    ELSE LET routes == get_least_time_path_to_deliver_package(
                           ns, get_package(ps, package_ids[i]))
         IN highest_routes_loop(ns, ps, package_ids, i + 1,
                IF Len(routes) > Len(highest_routes) THEN routes ELSE highest_routes)

\* routes.iter().filter(not in highest_routes).rev()
route_diff(routes, highest_routes) ==
    Reverse(SelectSeq(routes, LAMBDA n : ~Contains(highest_routes, n)))

\* whether the scan of one package's route finds a station to pick up from
route_picks(ns, ts, ps, node_id, biggest_train, highest_routes, routes) ==
    LET diff == route_diff(routes, highest_routes)
    IN \E c \in 1..Len(diff) :
          /\ get_travel_time_from_routes(ns, <<diff[c], node_id>>)
                < get_travel_time_from_routes(ns, highest_routes)
          /\ LET there == list_undelivered_packages_at_node(ps, diff[c])
             IN \E k \in 1..Len(there) :
                    can_accomodate_package(get_train(ts, biggest_train),
                                           get_package(ps, there[k]))

\* the first route of all_routes whose scan picks, 0 for none
RECURSIVE first_picking_route(_, _, _, _, _, _, _, _)
first_picking_route(ns, ts, ps, node_id, biggest_train, highest_routes, all_routes, r) ==
    IF r > Len(all_routes) THEN 0
    ELSE IF route_picks(ns, ts, ps, node_id, biggest_train, highest_routes, all_routes[r])
    THEN r
    ELSE first_picking_route(ns, ts, ps, node_id, biggest_train, highest_routes,
                             all_routes, r + 1)

\* the loading loop of the commit
RECURSIVE load_loop(_, _, _, _, _, _)
load_loop(ts, ps, train_id, package_ids, i, abort) ==
    IF abort \/ i > Len(package_ids)
    THEN [trains |-> ts, packages |-> ps, abort |-> abort]
    ELSE LET r == load_package(ts, ps, train_id,
                               find_package_index_by_id(ps, package_ids[i]))
         IN load_loop(r.trains, r.packages, train_id, package_ids, i + 1, r.abort)

NodeResult(res, ts, ps, abort) ==
    [result |-> res, trains |-> ts, packages |-> ps, abort |-> abort]

\* deliver_packages_in_node.  abort: the call panicked (an index out of
\* range, an unwrap of None, an unsigned subtraction below zero)
deliver_packages_in_node(ns, ts, ps, node_id, index) ==
    LET here == list_undelivered_packages_at_node(ps, node_id)
        biggest == find_largest_capacity_train_in_node(ts, node_id)
        biggest_train == biggest[1]
        highest_routes == highest_routes_loop(ns, ps, here, 1, <<>>)
        destination == highest_routes[2]
        filtered_packages == get_packages_passing_to_node(ns, ps, destination, here)
        all_routes == list_all_undelivered_packages_least_possible_routes(ns, ps)
        pick == first_picking_route(ns, ts, ps, node_id, biggest_train, highest_routes,
                                    all_routes, 1)
        diff == route_diff(all_routes[pick], highest_routes)
        loaded == load_loop(ts, ps, biggest_train, filtered_packages, 1, FALSE)
        edge == find_edge_with_node(ns[index], destination)
        moved == move_to_node(loaded.trains, biggest_train, node_id, destination,
                              edge[1].travel_time)
    IN IF here = <<>> THEN NodeResult("NoPackages", ts, ps, FALSE)
       ELSE IF biggest = <<>> THEN NodeResult("NoTrains", ts, ps, FALSE)
       ELSE IF Len(highest_routes) < 2 THEN NodeResult("", ts, ps, TRUE)
       ELSE IF pick # 0
       THEN NodeResult("TrainPicking",
                move_to_node(ts, biggest_train, node_id, diff[1],
                             get_travel_time_from_routes(ns, <<diff[1], node_id>>)),
                ps, FALSE)
       ELSE IF loaded.abort THEN NodeResult("", loaded.trains, loaded.packages, TRUE)
       ELSE IF edge = <<>> THEN NodeResult("", loaded.trains, loaded.packages, TRUE)
       ELSE IF list_undelivered_packages_at_node(loaded.packages, node_id) # <<>>
       THEN NodeResult("NotAllPackageLoaded", moved, loaded.packages, FALSE)
       ELSE NodeResult("AllPackageLoaded", moved, loaded.packages, FALSE)

\* The post-pass of deliver_packages_in_nodes, for one package still
\* dropped: first the stations of its route, then every stopped train.
\* on_route_loop: [trains, moved]
RECURSIVE on_route_loop(_, _, _, _, _, _)
RECURSIVE on_route_trains(_, _, _, _, _, _, _)
on_route_loop(ns, ts, package, routes, i, moved) ==
    IF i > Len(routes) THEN [trains |-> ts, moved |-> moved]
    ELSE on_route_trains(ns, ts, package, routes, i,
                         list_stopped_trains_at_node(ts, routes[i]), moved)

on_route_trains(ns, ts, package, routes, i, train_ids, moved) ==
    IF train_ids = <<>> THEN on_route_loop(ns, ts, package, routes, i + 1, moved)
    ELSE IF can_accomodate_package(get_train(ts, Head(train_ids)), package)
    THEN on_route_loop(ns,
             move_to_node(ts, Head(train_ids), routes[i], routes[i - 1],
                          get_travel_time_from_routes(ns, <<routes[i - 1], routes[i]>>)),
             package, routes, i + 1, TRUE)
    ELSE on_route_trains(ns, ts, package, routes, i, Tail(train_ids), moved)

\* the scan of every stopped train: [trains, abort]
RECURSIVE off_route_loop(_, _, _, _)
off_route_loop(ns, ts, package, train_ids) ==
    IF train_ids = <<>> THEN [trains |-> ts, abort |-> FALSE]
    ELSE LET train == get_train(ts, Head(train_ids))
             train_location == train.status.origin
             routes == get_least_time_path_to_move_from_point_a_to_point_b(
                           ns, train_location, package.destination)
         IN IF Len(routes) < 2 THEN [trains |-> ts, abort |-> TRUE]
            ELSE IF can_accomodate_package(train, package)
            THEN [trains |-> move_to_node(ts, Head(train_ids), train_location, routes[2],
                                 get_travel_time_from_routes(ns,
                                     <<train_location, routes[2]>>)),
                  abort |-> FALSE]
            ELSE off_route_loop(ns, ts, package, Tail(train_ids))

RECURSIVE post_pass_loop(_, _, _, _, _)
post_pass_loop(ns, ts, ps, dropped_packages, k) ==
    IF k > Len(dropped_packages) THEN [trains |-> ts, abort |-> FALSE]
    ELSE LET package == get_package(ps, dropped_packages[k])
             routes == get_least_time_path_to_deliver_package(ns, package)
             on == on_route_loop(ns, ts, package, routes, 2, FALSE)
             off == off_route_loop(ns, on.trains, package, list_stopped_trains(on.trains))
         IN IF on.moved THEN post_pass_loop(ns, on.trains, ps, dropped_packages, k + 1)
            ELSE IF off.abort THEN off
            ELSE post_pass_loop(ns, off.trains, ps, dropped_packages, k + 1)

post_pass(ns, ts, ps) == post_pass_loop(ns, ts, ps, list_undelivered_packages(ps), 1)

\* a blacklist_packages_that_cant_be_transported that never thaws
blacklist_without_thaw(ts, ps) ==
    [k \in 1..Len(ps) |->
        IF ps[k].status.kind = "DroppedAt"
           /\ ~can_pacakge_be_transported_by_any_trains(ts, ps[k])
        THEN set_to_cant_be_transported(ps[k])
        ELSE ps[k]]

\* a blacklist_packages_that_cant_be_transported that thaws what it finds
\* frozen without asking the trains
blacklist_thaw_unchecked(ts, ps) ==
    [k \in 1..Len(ps) |->
        IF ps[k].status.kind = "DroppedAt"
           /\ ~can_pacakge_be_transported_by_any_trains(ts, ps[k])
        THEN set_to_cant_be_transported(ps[k])
        ELSE drop_to_origin(ps[k])]

\* blacklist_packages_that_cant_be_transported: the two loops in turn
blacklist_packages_that_cant_be_transported(ts, ps) ==
    LET frozen == [k \in 1..Len(ps) |->
                      IF ps[k].status.kind = "DroppedAt"
                         /\ ~can_pacakge_be_transported_by_any_trains(ts, ps[k])
                      THEN set_to_cant_be_transported(ps[k])
                      ELSE ps[k]]
    IN [k \in 1..Len(frozen) |->
           IF frozen[k].status.kind = "CantBeTransported"
              /\ can_pacakge_be_transported_by_any_trains(ts, frozen[k])
           THEN drop_to_origin(frozen[k])
           ELSE frozen[k]]

\* the report line of one train
report_line(ps, total, train) ==
    [W |-> total,
     T |-> train.id,
     N1 |-> train.status.origin,
     P1 |-> list_package_names_in_transit(ps, train.id),
     N2 |-> train.status.destination,
     P2 |-> list_package_names_delivered(ps, train.id)]

-----------------------------------------------------------------------------
(* Registration: each call as the pair of the new lists and its Result.    *)

Ok == [kind |-> "Ok", minutes |-> 0]
Err == [kind |-> "Err", minutes |-> 0]
Minute(m) == [kind |-> "Minute", minutes |-> m]
\* no value yet: deliver_packages has not returned
Running == [kind |-> "Running", minutes |-> 0]

\* again: the call came straight after a call that returned
NoStart == [called |-> FALSE, again |-> FALSE, trains |-> <<>>, packages |-> <<>>]

NewNode(name) == [id |-> name, edges |-> <<>>]
NewEdge(name, node, time) == [id |-> name, node |-> node, travel_time |-> time]

\* TrainFreightSystem::add_node
add_node(ns, name) ==
    IF find_node_index_by_id(ns, name) # 0
    THEN [nodes |-> ns, res |-> Err]
    ELSE [nodes |-> Append(ns, NewNode(name)), res |-> Ok]

\* Node::add_edge
node_add_edge(node, edge) ==
    IF find_edge_index_by_id(node, edge.id) # 0
    THEN [node |-> node, res |-> Err]
    ELSE [node |-> [node EXCEPT !.edges = Append(node.edges, edge)], res |-> Ok]

\* TrainFreightSystem::add_edge: the first side is pushed before the second
\* side is checked
add_edge(ns, name, node_1, node_2, time) ==
    LET node_1_pos == find_node_index_by_id(ns, node_1)
        node_2_pos == find_node_index_by_id(ns, node_2)
        first == node_add_edge(ns[node_1_pos], NewEdge(name, node_2, time))
        ns1 == [ns EXCEPT ![node_1_pos] = first.node]
        second == node_add_edge(ns1[node_2_pos], NewEdge(name, node_1, time))
    IN IF node_1_pos = 0 \/ node_2_pos = 0 \/ node_1_pos = node_2_pos
       THEN [nodes |-> ns, res |-> Err]
       ELSE IF first.res = Err THEN [nodes |-> ns, res |-> Err]
       ELSE IF second.res = Err THEN [nodes |-> ns1, res |-> Err]
       ELSE [nodes |-> [ns1 EXCEPT ![node_2_pos] = second.node], res |-> Ok]

\* TrainFreightSystem::add_train over TrainHandler::add_train
add_train(ns, ts, name, max_capacity, location) ==
    IF find_node_index_by_id(ns, location) = 0 THEN [trains |-> ts, res |-> Err]
    ELSE IF find_train_index_by_id(ts, name) # 0 THEN [trains |-> ts, res |-> Err]
    ELSE [trains |-> Append(ts, NewTrain(name, max_capacity, location)), res |-> Ok]

\* TrainFreightSystem::add_package over PackageHandler::add_package
add_package(ns, ps, name, weight, origin, destination) ==
    IF find_node_index_by_id(ns, origin) = 0 \/ find_node_index_by_id(ns, destination) = 0
    THEN [packages |-> ps, res |-> Err]
    ELSE IF find_package_index_by_id(ps, name) # 0 THEN [packages |-> ps, res |-> Err]
    ELSE [packages |-> Append(ps, NewPackage(name, weight, origin, destination)),
          res |-> Ok]

-----------------------------------------------------------------------------
(* The state machine.                                                      *)

Init ==
    /\ nodes = <<>>
    /\ trains = <<>>
    /\ packages = <<>>
    /\ pc = "idle"
    /\ node_index = 0
    /\ total_delivery_time = 0
    /\ travel_time = 0
    /\ result = Ok
    /\ report = <<>>
    /\ start = NoStart
    /\ query = <<>>

Min(a, b) == IF a < b THEN a ELSE b

RegisteredNodeIds == Range(Ids(nodes))

EdgeCount == Cardinality(UNION {Range(Ids(nodes[i].edges)) : i \in 1..Len(nodes)})

\* a registration call leaves the delivery loop's variables alone
Registered(res) ==
    /\ pc = "idle"
    /\ result' = res
    /\ start' = NoStart
    /\ report' = <<>>
    /\ query' = <<>>
    /\ UNCHANGED <<pc, node_index, total_delivery_time, travel_time>>

\* The calls of this specification are the ones that succeed: the next
\* unused name, stations that exist, two different ends.
AddNode ==
    /\ Len(nodes) < MaxNodes
    /\ LET r == add_node(nodes, NodeNames[Len(nodes) + 1])
       IN /\ Registered(r.res)
          /\ nodes' = r.nodes
          /\ UNCHANGED <<trains, packages>>

AddEdge ==
    /\ EdgeCount < MaxEdges
    /\ \E node_1 \in RegisteredNodeIds :
       \E node_2 \in RegisteredNodeIds \ {node_1} :
          LET r == add_edge(nodes, EdgeNames[EdgeCount + 1], node_1, node_2,
                            EdgeTimes[EdgeCount + 1])
          IN /\ Registered(r.res)
             /\ nodes' = r.nodes
             /\ UNCHANGED <<trains, packages>>

AddTrain ==
    /\ Len(trains) < MaxTrains
    /\ \E location \in RegisteredNodeIds :
          LET r == add_train(nodes, trains, TrainNames[Len(trains) + 1],
                             TrainCapacities[Len(trains) + 1], location)
          IN /\ Registered(r.res)
             /\ trains' = r.trains
             /\ UNCHANGED <<nodes, packages>>

AddPackage ==
    /\ Len(packages) < MaxPackages
    /\ \E origin \in RegisteredNodeIds, destination \in RegisteredNodeIds :
          LET r == add_package(nodes, packages, PackageNames[Len(packages) + 1],
                               PackageWeights[Len(packages) + 1], origin, destination)
          IN /\ Registered(r.res)
             /\ packages' = r.packages
             /\ UNCHANGED <<nodes, trains>>

\* deliver_packages up to the first test of the while condition
DeliverStart ==
    /\ pc = "idle"
    /\ start' = [called |-> TRUE, again |-> result.kind = "Minute",
                 trains |-> trains, packages |-> packages]
    /\ packages' = blacklist_packages_that_cant_be_transported(trains, packages)
    /\ total_delivery_time' = 0
    /\ travel_time' = 0
    /\ report' = <<>>
    /\ IF have_undelivered_packages(packages')
       THEN pc' = "dispatch" /\ node_index' = 1 /\ result' = Running
       ELSE pc' = "idle" /\ node_index' = 0 /\ result' = Minute(0)
    /\ UNCHANGED <<nodes, trains, query>>

\* one call of deliver_packages_in_node inside deliver_packages_in_nodes,
\* and what the loops around it do with its result
DispatchStep ==
    /\ pc = "dispatch"
    /\ LET r == deliver_packages_in_node(nodes, trains, packages,
                                         nodes[node_index].id, node_index)
       IN IF r.abort
          THEN pc' = "abort" /\ UNCHANGED <<trains, packages, node_index>>
          ELSE /\ trains' = r.trains
               /\ packages' = r.packages
               /\ IF r.result = "NotAllPackageLoaded"
                  THEN UNCHANGED <<pc, node_index>>
                  ELSE IF node_index < Len(nodes)
                  THEN node_index' = node_index + 1 /\ UNCHANGED pc
                  ELSE node_index' = 0 /\ pc' = "post"
    /\ UNCHANGED <<nodes, total_delivery_time, travel_time, result, report, start, query>>

\* the rest of deliver_packages_in_nodes: trains sent toward packages still
\* dropped
PostPass ==
    /\ pc = "post"
    /\ LET r == post_pass(nodes, trains, packages)
       IN IF r.abort
          THEN pc' = "abort" /\ UNCHANGED trains
          ELSE pc' = "arrive" /\ trains' = r.trains
    /\ UNCHANGED <<nodes, packages, node_index, total_delivery_time, travel_time,
                   result, report, start, query>>

\* train_arrived
TrainArrived ==
    /\ pc = "arrive"
    /\ LET lowest == get_moving_train_lowest_travel_time(trains)
           least_travel_time == IF lowest = <<>> THEN 0 ELSE lowest[1]
           elapsed == time_elapsed(trains, least_travel_time)
           r == unload_packages_in_trains_that_stopped(elapsed, packages)
       IN IF time_elapsed_aborts(trains, least_travel_time) \/ r.abort
          THEN pc' = "abort" /\ UNCHANGED <<trains, packages, travel_time>>
          ELSE /\ pc' = "report"
               /\ trains' = r.trains
               /\ packages' = r.packages
               /\ travel_time' = least_travel_time
    /\ UNCHANGED <<nodes, node_index, total_delivery_time, result, report, start, query>>

\* the report lines, the accumulation, the sweep, and the next test of the
\* while condition
Report ==
    /\ pc = "report"
    /\ total_delivery_time + travel_time <= MaxTotal
    /\ report' = [i \in 1..Len(trains) |->
                     report_line(packages, total_delivery_time, trains[i])]
    /\ total_delivery_time' = total_delivery_time + travel_time
    /\ packages' = delist_delivered_packages(packages)
    /\ IF have_undelivered_packages(packages')
       THEN pc' = "dispatch" /\ node_index' = 1 /\ UNCHANGED result
       ELSE pc' = "idle" /\ node_index' = 0 /\ result' = Minute(total_delivery_time')
    /\ UNCHANGED <<nodes, trains, travel_time, start, query>>

Next ==
    \/ AddNode
    \/ AddEdge
    \/ AddTrain
    \/ AddPackage
    \/ DeliverStart
    \/ DispatchStep
    \/ PostPass
    \/ TrainArrived
    \/ Report

Spec == Init /\ [][Next]_vars

-----------------------------------------------------------------------------
(* The specification of the repository's test: the registration calls of   *)
(* tests::test_system, each with the test's own arguments, and             *)
(* deliver_packages called at any time between them.                       *)

TestEdgeEnds == <<<<"A", "B">>, <<"C", "B">>>>
TestTrainLocations == <<"B", "C">>
TestPackageEnds == <<<<"A", "C">>, <<"B", "A">>>>

TestAddNode == AddNode

TestAddEdge ==
    /\ EdgeCount < Min(MaxEdges, Len(TestEdgeEnds))
    /\ LET ends == TestEdgeEnds[EdgeCount + 1]
           r == add_edge(nodes, EdgeNames[EdgeCount + 1], ends[1], ends[2],
                         EdgeTimes[EdgeCount + 1])
       IN /\ r.res = Ok
          /\ Registered(r.res)
          /\ nodes' = r.nodes
          /\ UNCHANGED <<trains, packages>>

TestAddTrain ==
    /\ Len(trains) < Min(MaxTrains, Len(TestTrainLocations))
    /\ LET r == add_train(nodes, trains, TrainNames[Len(trains) + 1],
                          TrainCapacities[Len(trains) + 1],
                          TestTrainLocations[Len(trains) + 1])
       IN /\ r.res = Ok
          /\ Registered(r.res)
          /\ trains' = r.trains
          /\ UNCHANGED <<nodes, packages>>

TestAddPackage ==
    /\ Len(packages) < Min(MaxPackages, Len(TestPackageEnds))
    /\ LET ends == TestPackageEnds[Len(packages) + 1]
           r == add_package(nodes, packages, PackageNames[Len(packages) + 1],
                            PackageWeights[Len(packages) + 1], ends[1], ends[2])
       IN /\ r.res = Ok
          /\ Registered(r.res)
          /\ packages' = r.packages
          /\ UNCHANGED <<nodes, trains>>

TestNext ==
    \/ TestAddNode
    \/ TestAddEdge
    \/ TestAddTrain
    \/ TestAddPackage
    \/ DeliverStart
    \/ DispatchStep
    \/ PostPass
    \/ TrainArrived
    \/ Report

TestSpec == Init /\ [][TestNext]_vars

-----------------------------------------------------------------------------
(* The specification of the route search: any network of at most           *)
(* MaxRouteEdges edges with travel times 0..MaxTime, and                    *)
(* get_least_time_path_to_move_from_point_a_to_point_b asked of it.        *)

RouteAddNode == AddNode

RouteAddEdge ==
    /\ EdgeCount < MaxRouteEdges
    /\ \E node_1 \in RegisteredNodeIds :
       \E node_2 \in RegisteredNodeIds \ {node_1} :
       \E time \in 0..MaxTime :
          LET r == add_edge(nodes, EdgeNames[EdgeCount + 1], node_1, node_2, time)
          IN /\ Registered(r.res)
             /\ nodes' = r.nodes
             /\ UNCHANGED <<trains, packages>>

RouteQuery ==
    /\ pc = "idle"
    /\ \E node_a_id \in RegisteredNodeIds, node_b_id \in RegisteredNodeIds :
          query' = <<[node_a_id |-> node_a_id, node_b_id |-> node_b_id,
                      route |-> get_least_time_path_to_move_from_point_a_to_point_b(
                                    nodes, node_a_id, node_b_id)]>>
    /\ UNCHANGED <<nodes, trains, packages, pc, node_index, total_delivery_time,
                   travel_time, result, report, start>>

RouteNext ==
    \/ RouteAddNode
    \/ RouteAddEdge
    \/ RouteQuery

RouteSpec == Init /\ [][RouteNext]_vars

-----------------------------------------------------------------------------
(* The specification of registration: every call of add_node, add_edge,    *)
(* add_train and add_package over a few names, the calls that fail         *)
(* included.  Stations are named in order; a name not yet given is an      *)
(* unknown station.                                                        *)

RegNodeNames == {NodeNames[i] : i \in 1..MaxNodes}
RegEdgeNames == {EdgeNames[i] : i \in 1..MaxRegEdges}
RegTrainNames == {TrainNames[i] : i \in 1..MaxRegTrains}
RegPackageNames == {PackageNames[i] : i \in 1..MaxRegPackages}

\* what a registration call leaves of the variables of deliver_packages
RegCall(res, call) ==
    /\ result' = res
    /\ query' = call
    /\ UNCHANGED <<pc, node_index, total_delivery_time, travel_time, report, start>>

RegAddNode ==
    \E name \in RegNodeNames :
        /\ \/ name \in RegisteredNodeIds
           \/ Len(nodes) < MaxNodes /\ name = NodeNames[Len(nodes) + 1]
        /\ LET r == add_node(nodes, name)
           IN /\ RegCall(r.res, <<>>)
              /\ nodes' = r.nodes
              /\ UNCHANGED <<trains, packages>>

RegAddEdge ==
    \E name \in RegEdgeNames, node_1 \in RegNodeNames, node_2 \in RegNodeNames :
        LET r == add_edge(nodes, name, node_1, node_2,
                          EdgeTimes[PositionFrom(EdgeNames, name, 1)])
        IN /\ RegCall(r.res, <<>>)
           /\ nodes' = r.nodes
           /\ UNCHANGED <<trains, packages>>

RegAddTrain ==
    \E name \in RegTrainNames, location \in RegNodeNames :
        LET r == add_train(nodes, trains, name,
                           TrainCapacities[PositionFrom(TrainNames, name, 1)], location)
        IN /\ RegCall(r.res, <<>>)
           /\ trains' = r.trains
           /\ UNCHANGED <<nodes, packages>>

\* the call's arguments are kept in query
RegAddPackage ==
    \E name \in RegPackageNames, origin \in RegNodeNames, destination \in RegNodeNames :
        LET r == add_package(nodes, packages, name,
                             PackageWeights[PositionFrom(PackageNames, name, 1)],
                             origin, destination)
        IN /\ RegCall(r.res, <<[name |-> name, origin |-> origin,
                                destination |-> destination]>>)
           /\ packages' = r.packages
           /\ UNCHANGED <<nodes, trains>>

RegNext ==
    \/ RegAddNode
    \/ RegAddEdge
    \/ RegAddTrain
    \/ RegAddPackage

RegSpec == Init /\ [][RegNext]_vars

-----------------------------------------------------------------------------
(* The specification of the try-load: stations, trains and packages are     *)
(* registered, and TrainHandler::load_package is called with any train and  *)
(* any package that awaits pickup.                                          *)

MaxLoadNodes == 2
MaxLoadPackages == 3

LoadAddNode ==
    /\ Len(nodes) < MaxLoadNodes
    /\ LET r == add_node(nodes, NodeNames[Len(nodes) + 1])
       IN /\ Registered(r.res)
          /\ nodes' = r.nodes
          /\ UNCHANGED <<trains, packages>>

LoadAddPackage ==
    /\ Len(packages) < MaxLoadPackages
    /\ \E origin \in RegisteredNodeIds, destination \in RegisteredNodeIds :
          LET r == add_package(nodes, packages, PackageNames[Len(packages) + 1],
                               PackageWeights[Len(packages) + 1], origin, destination)
          IN /\ Registered(r.res)
             /\ packages' = r.packages
             /\ UNCHANGED <<nodes, trains>>

\* the call's arguments are kept in query
LoadCall ==
    /\ pc = "idle"
    /\ \E i \in 1..Len(trains), k \in 1..Len(packages) :
          /\ packages[k].status.kind = "DroppedAt"
          /\ LET r == load_package(trains, packages, trains[i].id, k)
             IN /\ ~r.abort
                /\ trains' = r.trains
                /\ packages' = r.packages
                /\ query' = <<[train_id |-> trains[i].id, package_id |-> packages[k].id]>>
    /\ UNCHANGED <<nodes, pc, node_index, total_delivery_time, travel_time, result,
                   report, start>>

LoadNext ==
    \/ LoadAddNode
    \/ AddTrain
    \/ LoadAddPackage
    \/ LoadCall

LoadSpec == Init /\ [][LoadNext]_vars

-----------------------------------------------------------------------------
(* The worlds of the repository's test (tests::test_system).               *)

\* stations A, B, C with E1 between A and B and E2 between C and B
TestNodes ==
    <<[id |-> "A", edges |-> <<NewEdge("E1", "B", 30)>>],
      [id |-> "B", edges |-> <<NewEdge("E1", "A", 30), NewEdge("E2", "C", 10)>>],
      [id |-> "C", edges |-> <<NewEdge("E2", "B", 10)>>]>>

\* the first call: K1 from A to C, Q1 at B
StartedA ==
    /\ nodes = TestNodes
    /\ start.called
    /\ start.trains = <<NewTrain("Q1", 6, "B")>>
    /\ start.packages = <<NewPackage("K1", 5, "A", "C")>>

\* the second call: K1 completed, Q1 where it delivered K1, K2 new at B for A
StartedB ==
    /\ nodes = TestNodes
    /\ start.called
    /\ start.trains = <<NewTrain("Q1", 6, "C")>>
    /\ start.packages = <<[NewPackage("K1", 5, "A", "C") EXCEPT !.status = Completed],
                          NewPackage("K2", 25, "B", "A")>>

\* the third call: K2 frozen at B, Q2 new at C
StartedC ==
    /\ nodes = TestNodes
    /\ start.called
    /\ start.trains = <<NewTrain("Q1", 6, "C"), NewTrain("Q2", 30, "C")>>
    /\ start.packages = <<[NewPackage("K1", 5, "A", "C") EXCEPT !.status = Completed],
                          [NewPackage("K2", 25, "B", "A") EXCEPT
                              !.status = CantBeTransported("B")]>>

Returned == pc = "idle" /\ result.kind = "Minute"

-----------------------------------------------------------------------------
(* Claims.                                                                 *)

\* the stations reached from the stations of seen along edges
RECURSIVE Reach(_, _)
Reach(ns, seen) ==
    LET from == {i \in 1..Len(ns) : ns[i].id \in seen}
        more == seen \cup UNION {{ns[i].edges[j].node : j \in 1..Len(ns[i].edges)} :
                                    i \in from}
    IN IF more = seen THEN seen ELSE Reach(ns, more)

Connected(ns) == \A a \in Range(Ids(ns)) : Reach(ns, {a}) = Range(Ids(ns))

\* every package is light enough for some registered train
AllCarriable(ts, ps) ==
    \A k \in 1..Len(ps) : \E i \in 1..Len(ts) : ps[k].weight <= ts[i].max_capacity

TooHeavy(ts, package) == \A i \in 1..Len(ts) : package.weight > ts[i].max_capacity

\* what the call of deliver_packages_in_node at the current station gives
StepHere ==
    deliver_packages_in_node(nodes, trains, packages, nodes[node_index].id, node_index)

\* the per-station loop repeats its call and the call changes nothing: the
\* loop never ends
Spinning ==
    /\ pc = "dispatch"
    /\ ~StepHere.abort
    /\ StepHere.result = "NotAllPackageLoaded"
    /\ StepHere.trains = trains
    /\ StepHere.packages = packages

\* C1: on a connected network where every package is light enough for some
\* train, deliver_packages comes to return; so its loop is never in a state
\* that it repeats for ever.
C1_Liveness ==
    (pc # "idle" /\ Connected(nodes) /\ AllCarriable(trains, packages)) => ~Spinning

\* C2: no train ever carries more than its capacity.
C2_LoadWithinCapacity ==
    \A i \in 1..Len(trains) : trains[i].load_size <= trains[i].max_capacity

\* a train left a station loaded, and left behind a package that no longer
\* fitted
C2_Witness ==
    \E i \in 1..Len(trains), k \in 1..Len(packages) :
        /\ trains[i].status.kind = "DeliveringTo"
        /\ trains[i].load_size > 0
        /\ packages[k].status.kind = "DroppedAt"
        /\ packages[k].status.node = trains[i].status.origin
        /\ packages[k].weight > trains[i].max_capacity - trains[i].load_size

\* C3: on a connected network deliver_packages never panics.
C3_NeverRaises == Connected(nodes) => pc # "abort"

\* C4: the first call of the test (K1 from A to C, Q1 at B) returns, 70,
\* with K1 completed.  It returns because it never aborts, no station's loop
\* repeats, every iteration advances the clock, and the clock stays
\* within 70.
C4_ScenarioA ==
    StartedA =>
        /\ pc # "abort"
        /\ pc = "dispatch" => StepHere.abort \/ StepHere.result # "NotAllPackageLoaded"
        /\ pc = "report" => travel_time > 0
        /\ total_delivery_time + (IF pc = "report" THEN travel_time ELSE 0) <= 70
        /\ Returned => result = Minute(70) /\ packages[1].status = Completed

C4_Witness ==
    StartedA /\ Returned /\ result = Minute(70) /\ packages[1].status = Completed

\* C5: the third call of the test (K2 frozen at B, Q2 added at C) returns,
\* 40, with K2 delivered to A; so it neither aborts nor repeats a station's
\* step for ever.
C5_ScenarioC ==
    StartedC =>
        /\ pc # "abort"
        /\ ~Spinning
        /\ Returned => /\ result = Minute(40)
                       /\ packages[2].status.kind \in {"Delivered", "Completed"}

\* the world deliver_packages was called in holds a package awaiting or
\* frozen, and every such package is too heavy for every train; any other
\* package is completed, or delivered at its creation
OnlyTooHeavy(st) ==
    /\ \E k \in 1..Len(st.packages) :
          st.packages[k].status.kind \in {"DroppedAt", "CantBeTransported"}
    /\ \A k \in 1..Len(st.packages) :
          \/ st.packages[k].status \in {Completed, Delivered(DefaultTrainId)}
          \/ /\ st.packages[k].status.kind \in {"DroppedAt", "CantBeTransported"}
             /\ TooHeavy(st.trains, st.packages[k])

\* C6: a call made when every package still to deliver is too heavy for
\* every train freezes those packages where they lie, runs no iteration (no
\* train changes, nothing is reported, no time passes) and returns 0.
C6_ScenarioB ==
    (start.called /\ OnlyTooHeavy(start)) =>
        /\ pc = "idle"
        /\ result = Minute(0)
        /\ total_delivery_time = 0
        /\ report = <<>>
        /\ trains = start.trains
        /\ Len(packages) = Len(start.packages)
        /\ \A k \in 1..Len(packages) :
              packages[k] =
                 IF start.packages[k].status.kind \in {"DroppedAt", "CantBeTransported"}
                 THEN [start.packages[k] EXCEPT
                          !.status = CantBeTransported(start.packages[k].status.node)]
                 ELSE start.packages[k]

\* the second call of the test has returned 0 with K2 frozen at B
C6_Witness ==
    /\ StartedB
    /\ Returned
    /\ result = Minute(0)
    /\ packages[2].status = CantBeTransported("B")

\* the step is the entry of deliver_packages
IsCall == pc = "idle" /\ start'.called

\* C7: the first thing a call does: a package awaiting or frozen at s ends
\* frozen at s if it is too heavy for every train (also when there is no
\* train) and awaiting at s if not; every other package is as it was.
C7_FreezeThaw ==
    [][IsCall =>
        /\ Len(packages') = Len(packages)
        /\ \A k \in 1..Len(packages) :
              IF packages[k].status.kind \in {"DroppedAt", "CantBeTransported"}
              THEN /\ packages'[k].status.kind =
                          (IF TooHeavy(trains, packages[k])
                           THEN "CantBeTransported" ELSE "DroppedAt")
                   /\ packages'[k].status.node = packages[k].status.node
                   /\ packages'[k].id = packages[k].id
                   /\ packages'[k].weight = packages[k].weight
                   /\ packages'[k].destination = packages[k].destination
              ELSE packages'[k] = packages[k]]_vars

\* a call has just thawed a package it found frozen, and frozen another one
\* or left one completed
C7_Witness ==
    /\ start.called
    /\ pc = "dispatch" /\ node_index = 1 /\ total_delivery_time = 0
    /\ \E k \in 1..Len(packages) :
          /\ start.packages[k].status.kind = "CantBeTransported"
          /\ packages[k].status.kind = "DroppedAt"
          /\ packages[k].status.node = start.packages[k].status.node

\* package k has just become Delivered, or has just been created so
BecomesDelivered(k) ==
    /\ packages'[k].status.kind = "Delivered"
    /\ (k > Len(packages) \/ packages[k].status # packages'[k].status)

BecomesCompleted(k) ==
    /\ packages'[k].status = Completed
    /\ (k > Len(packages) \/ packages[k].status # Completed)

\* the step is an arrival of the train that carried package k, at the
\* package's destination, and the package is Delivered by that train
DeliveredByArrival(k) ==
    /\ k <= Len(packages)
    /\ pc = "arrive"
    /\ packages[k].status.kind = "LoadedTo"
    /\ packages'[k].status = Delivered(packages[k].status.train)
    /\ \E i \in 1..Len(trains) :
          /\ trains[i].id = packages[k].status.train
          /\ trains[i].status.kind = "DeliveringTo"
          /\ trains[i].status.destination = packages[k].destination
          /\ trains'[i].status = StoppedAt(packages[k].destination)

\* the step creates package k at its destination: Delivered, by no train
DeliveredAtCreation(k) ==
    /\ k = Len(packages) + 1
    /\ pc = "idle"
    /\ packages'[k].status = Delivered(DefaultTrainId)

\* C8, as stated: a package becomes Completed only from Delivered, and
\* becomes Delivered(t) only when t, carrying it, arrives at its destination.
C8_Original ==
    [][\A k \in 1..Len(packages') :
          /\ BecomesCompleted(k) =>
                k <= Len(packages) /\ packages[k].status.kind = "Delivered"
          /\ BecomesDelivered(k) => DeliveredByArrival(k)]_vars

\* C8: a package becomes Completed only from Delivered, and becomes
\* Delivered only when the train carrying it arrives at its destination, or
\* when it is created with its origin as destination (Delivered by the
\* default, empty train id).
C8_CompletedWasDelivered ==
    [][\A k \in 1..Len(packages') :
          /\ BecomesCompleted(k) =>
                k <= Len(packages) /\ packages[k].status.kind = "Delivered"
          /\ BecomesDelivered(k) => DeliveredByArrival(k) \/ DeliveredAtCreation(k)]_vars

\* a package that awaited pickup when deliver_packages was called is
\* completed, and so is one that was created at its destination
C8_Witness ==
    /\ start.called
    /\ \E k \in 1..Len(packages) :
          /\ start.packages[k].status.kind = "DroppedAt"
          /\ packages[k].status = Completed
    /\ \E k \in 1..Len(packages) :
          /\ start.packages[k].status = Delivered(DefaultTrainId)
          /\ packages[k].status = Completed

\* the sequences of n distinct stations of ns
RECURSIVE DistinctSeqs(_, _)
DistinctSeqs(ns, n) ==
    IF n = 0 THEN {<<>>}
    ELSE {Append(p, x) : p \in DistinctSeqs(ns, n - 1), x \in Range(Ids(ns))}

\* the simple paths from a to b: distinct stations, each joined to the next
\* by an edge
SimplePaths(ns, a, b) ==
    {p \in UNION {DistinctSeqs(ns, n) : n \in 1..Len(ns)} :
        /\ Cardinality(Range(p)) = Len(p)
        /\ p[1] = a /\ p[Len(p)] = b
        /\ \A i \in 1..(Len(p) - 1) :
              find_edge_with_node(ns[find_node_index_by_id(ns, p[i])], p[i + 1]) # <<>>}

\* the first path of the depth-first enumeration among those of least time
FirstOfLeast(ns, a, b) ==
    LET found == get_all_possible_routes(ns, a, b, <<>>, <<>>).possible_paths
        least == CHOOSE i \in 1..Len(found) :
                    /\ \A j \in 1..Len(found) :
                          get_travel_time_from_routes(ns, found[i])
                              <= get_travel_time_from_routes(ns, found[j])
                    /\ \A j \in 1..(i - 1) :
                          get_travel_time_from_routes(ns, found[j])
                              > get_travel_time_from_routes(ns, found[i])
    IN found[least]

Asked == query # <<>> /\ query[1].node_a_id # query[1].node_b_id

\* C9: the route returned for two different stations is empty iff no simple
\* path joins them; otherwise it is a simple path between them, of the least
\* summed travel time among all simple paths (travel times from 0 up), and
\* the first such path of the depth-first enumeration.
C9_LeastTimePath ==
    Asked =>
        LET q == query[1]
            paths == SimplePaths(nodes, q.node_a_id, q.node_b_id)
        IN /\ q.route = <<>> <=> paths = {}
           /\ paths # {} =>
                /\ q.route \in paths
                /\ \A p \in paths : get_travel_time_from_routes(nodes, q.route)
                                        <= get_travel_time_from_routes(nodes, p)
                /\ q.route = FirstOfLeast(nodes, q.node_a_id, q.node_b_id)

\* the same with every travel time positive
C9_PositiveTimes ==
    (\A i \in 1..Len(nodes) : \A e \in Range(nodes[i].edges) : e.travel_time > 0)
        => C9_LeastTimePath

\* C10: the route from a to b and the route from b to a take the same total
\* travel time.
C10_Symmetric ==
    Asked =>
        LET q == query[1]
        IN get_travel_time_from_routes(nodes, q.route)
           = get_travel_time_from_routes(nodes,
                 get_least_time_path_to_move_from_point_a_to_point_b(
                     nodes, q.node_b_id, q.node_a_id))

C10_PositiveTimes ==
    (\A i \in 1..Len(nodes) : \A e \in Range(nodes[i].edges) : e.travel_time > 0)
        => C10_Symmetric

\* C11: a call of deliver_packages made straight after a call that returned,
\* with no registration between the two, returns 0 at once and leaves every
\* station, train and package as it was.
C11_Idempotent ==
    [][(pc = "idle" /\ result.kind = "Minute" /\ start'.called /\ start'.again) =>
          /\ pc' = "idle"
          /\ result' = Minute(0)
          /\ nodes' = nodes
          /\ trains' = trains
          /\ packages' = packages]_vars

\* the second of two calls in a row has returned, the first having delivered
\* a package and left another frozen
C11_Witness ==
    /\ pc = "idle"
    /\ start.again
    /\ result = Minute(0)
    /\ \E k \in 1..Len(packages) : packages[k].status = Completed
    /\ \E k \in 1..Len(packages) : packages[k].status.kind = "CantBeTransported"

\* a package awaits at a station from which its destination cannot be
\* reached, and some train is large enough for it
Stranded ==
    \E k \in 1..Len(packages) :
        /\ packages[k].status.kind = "DroppedAt"
        /\ get_least_time_path_to_deliver_package(nodes, packages[k]) = <<>>
        /\ \E i \in 1..Len(trains) : packages[k].weight <= trains[i].max_capacity

\* C12: while a package awaits whose destination cannot be reached from its
\* station, and some train is large enough for it, deliver_packages neither
\* aborts nor repeats a station's step for ever.
C12_Unreachable == Stranded => pc # "abort" /\ ~Spinning

\* the last call was an add_package that succeeded
PackageAdded == query # <<>> /\ result = Ok

\* C13, as stated: a package just added awaits at its origin, or is Completed
\* when its origin is its destination.
C13_Original ==
    PackageAdded =>
        LET q == query[1]
            package == packages[Len(packages)]
        IN /\ package.id = q.name /\ package.destination = q.destination
           /\ package.status = IF q.origin = q.destination
                               THEN Completed
                               ELSE DroppedAt(q.origin, DefaultTrainId)

\* C13: a package just added awaits at its origin, dropped there by no
\* train, or, when its origin is its destination, is Delivered by no train
\* (the default, empty train id): not yet Completed.
C13_NewPackageStatus ==
    PackageAdded =>
        LET q == query[1]
            package == packages[Len(packages)]
        IN /\ package.id = q.name /\ package.destination = q.destination
           /\ package.status = IF q.origin = q.destination
                               THEN Delivered(DefaultTrainId)
                               ELSE DroppedAt(q.origin, DefaultTrainId)

\* a package has just been added whose origin is its destination
C13_Witness ==
    /\ PackageAdded
    /\ query[1].origin = query[1].destination
    /\ packages[Len(packages)].status.kind = "Delivered"

\* C14: after any registration calls, successful or failing, station a holds
\* the entry (e, b, t) if and only if station b holds the entry (e, a, t).
C14_EdgesSymmetric ==
    \A i \in 1..Len(nodes) : \A k \in 1..Len(nodes[i].edges) :
        LET edge == nodes[i].edges[k]
            j == find_node_index_by_id(nodes, edge.node)
        IN /\ j # 0
           /\ \E l \in 1..Len(nodes[j].edges) :
                 nodes[j].edges[l] = NewEdge(edge.id, nodes[i].id, edge.travel_time)

\* C15: a registration call that returns an error leaves the stations, their
\* edges, the trains and the packages as they were.
C15_ErrorChangesNothing ==
    [][result' = Err =>
          nodes' = nodes /\ trains' = trains /\ packages' = packages]_vars

\* the positions in the fleet of the trains stopped at station n
StoppedHere(n) == {i \in 1..Len(trains) : trains[i].status = StoppedAt(n)}

\* C16: find_largest_capacity_train_in_node gives no train iff none is stopped
\* at the station; otherwise a train stopped there, of the largest capacity
\* among those stopped there, the earliest registered of that capacity.
C16_LargestStoppedAt ==
    \A n \in RegisteredNodeIds :
        LET found == find_largest_capacity_train_in_node(trains, n)
            i == find_train_index_by_id(trains, found[1])
        IN /\ found = <<>> <=> StoppedHere(n) = {}
           /\ found # <<>> =>
                /\ i \in StoppedHere(n)
                /\ \A j \in StoppedHere(n) :
                      /\ trains[j].max_capacity <= trains[i].max_capacity
                      /\ trains[j].max_capacity = trains[i].max_capacity => i <= j

\* train i is given a leg, from the station where it is stopped
TakesLeg(i) ==
    /\ trains[i].status.kind = "StoppedAt"
    /\ trains'[i].status.kind = "DeliveringTo"
    /\ trains'[i].status.origin = trains[i].status.origin

\* train i, en route, has its remaining time cut by the clock and keeps its
\* origin and destination
Advances(i) ==
    /\ pc = "arrive"
    /\ trains[i].status.kind = "DeliveringTo"
    /\ trains'[i].status.kind = "DeliveringTo"
    /\ trains'[i].status.origin = trains[i].status.origin
    /\ trains'[i].status.destination = trains[i].status.destination
    /\ trains'[i].status.time = trains[i].status.time - travel_time'
    /\ trains'[i].status.time > 0

\* train i, en route, stops at its destination as its remaining time
\* reaches zero
Arrives(i) ==
    /\ pc = "arrive"
    /\ trains[i].status.kind = "DeliveringTo"
    /\ trains[i].status.time = travel_time'
    /\ trains'[i].status = StoppedAt(trains[i].status.destination)

\* C17: a train's status changes only by taking a leg from the station where
\* it is stopped, by the clock cutting the remaining time of its leg, or by
\* stopping at the leg's destination when the remaining time reaches zero.
C17_Alternate ==
    [][\A i \in 1..Len(trains) :
          trains'[i].status # trains[i].status =>
              TakesLeg(i) \/ Advances(i) \/ Arrives(i)]_vars

\* dispatch gives train i a leg in this step
GivenLeg(i) ==
    /\ pc \in {"dispatch", "post"}
    /\ trains'[i].status.kind = "DeliveringTo"
    /\ trains'[i].status # trains[i].status

\* C18: every leg that dispatch gives a train is one hop: an edge joins the
\* leg's origin to its destination, and the leg's remaining time starts at
\* that edge's travel time.
C18_SingleHop ==
    [][\A i \in 1..Len(trains) :
          GivenLeg(i) =>
              LET leg == trains'[i].status
                  o == find_node_index_by_id(nodes, leg.origin)
              IN /\ o # 0
                 /\ \E k \in 1..Len(nodes[o].edges) :
                       /\ nodes[o].edges[k].node = leg.destination
                       /\ nodes[o].edges[k].travel_time = leg.time]_vars

\* the step is a commit: the selected train loads and leaves
IsCommit ==
    /\ pc = "dispatch"
    /\ ~StepHere.abort
    /\ StepHere.result \in {"AllPackageLoaded", "NotAllPackageLoaded"}

\* what the commit at station s toward h leaves of the packages: from
\* package k on, in listing order, each package awaiting at s whose
\* least-time route passes through h is loaded if it fits the room left
RECURSIVE ExpectedLoad(_, _, _, _, _, _)
ExpectedLoad(ps, k, s, h, room, train_id) ==
    IF k > Len(ps) THEN ps
    ELSE IF /\ ps[k].status.kind = "DroppedAt"
            /\ ps[k].status.node = s
            /\ Contains(get_least_time_path_to_deliver_package(nodes, ps[k]), h)
            /\ ps[k].weight <= room
    THEN ExpectedLoad([ps EXCEPT ![k].status = LoadedTo(train_id)], k + 1, s, h,
                      room - ps[k].weight, train_id)
    ELSE ExpectedLoad(ps, k + 1, s, h, room, train_id)

\* C19: in a commit at station s with next hop h, the packages loaded are
\* those awaiting at s whose least-time route passes through h, tried in
\* listing order and loaded iff they fit the room then left in the train;
\* every other package stays as it was.
C19_CommitLoads ==
    [][IsCommit =>
          \A i \in 1..Len(trains) :
              GivenLeg(i) =>
                  packages' = ExpectedLoad(packages, 1, nodes[node_index].id,
                                  trains'[i].status.destination,
                                  trains[i].max_capacity - trains[i].load_size,
                                  trains[i].id)]_vars

\* the step is a reroute: the selected train leaves without loading
IsReroute ==
    /\ pc = "dispatch"
    /\ ~StepHere.abort
    /\ StepHere.result = "TrainPicking"

\* the anchor route at station c: the longest of the least-time routes of
\* the packages awaiting there
AnchorRoute(c) ==
    highest_routes_loop(nodes, packages, list_undelivered_packages_at_node(packages, c),
                        1, <<>>)

\* station x justifies a reroute of a train with that much room, at c
Justifies(x, c, room) ==
    /\ \E k \in 1..Len(packages) :
          /\ packages[k].status.kind = "DroppedAt"
          /\ Contains(get_least_time_path_to_deliver_package(nodes, packages[k]), x)
    /\ ~Contains(AnchorRoute(c), x)
    /\ \E e \in Range(nodes[find_node_index_by_id(nodes, x)].edges) :
          /\ e.node = c
          /\ e.travel_time < get_travel_time_from_routes(nodes, AnchorRoute(c))
    /\ \E k \in 1..Len(packages) :
          /\ packages[k].status = DroppedAt(x, packages[k].status.train)
          /\ packages[k].weight <= room

\* C20: the reroute at station c fires only if some station x is on the
\* least-time route of an awaiting package, is absent from the anchor route,
\* has an edge to c of travel time less than the anchor route's total, and
\* holds an awaiting package that fits the room left in the selected train.
C20_RerouteJustified ==
    [][IsReroute =>
          \A i \in 1..Len(trains) :
              GivenLeg(i) =>
                  \E x \in RegisteredNodeIds :
                      Justifies(x, nodes[node_index].id,
                                trains[i].max_capacity - trains[i].load_size)]_vars

\* the packages awaiting pickup
Awaiting == {k \in 1..Len(packages) : packages[k].status.kind = "DroppedAt"}

\* C21: the post-pass repositions at most one train for each package still
\* awaiting pickup; so it gives no more legs than there are such packages.
C21_OneTrainPerPackage ==
    [][pc = "post" =>
          Cardinality({i \in 1..Len(trains) : GivenLeg(i)}) <= Cardinality(Awaiting)]_vars

\* the trains en route
EnRoute == {i \in 1..Len(trains) : trains[i].status.kind = "DeliveringTo"}

\* the least remaining time of the trains en route, 0 when none is
LeastRemaining ==
    IF EnRoute = {} THEN 0
    ELSE CHOOSE m \in {trains[i].status.time : i \in EnRoute} :
             \A i \in EnRoute : m <= trains[i].status.time

\* C22: a tick advances the clock by the least remaining time of the trains
\* en route (0 when none is): each of them has its remaining time cut by
\* that much, never below zero, and stops at its destination when it reaches
\* zero; a stopped train is unchanged; and when some train was en route,
\* some train arrives.
C22_Tick ==
    [][pc = "arrive" =>
          /\ pc' = "report"
          /\ travel_time' = LeastRemaining
          /\ \A i \in 1..Len(trains) :
                IF i \in EnRoute
                THEN /\ trains[i].status.time >= LeastRemaining
                     /\ trains'[i].status =
                           IF trains[i].status.time = LeastRemaining
                           THEN StoppedAt(trains[i].status.destination)
                           ELSE DeliveringTo(trains[i].status.origin,
                                             trains[i].status.destination,
                                             trains[i].status.time - LeastRemaining)
                ELSE trains'[i] = trains[i]
          /\ EnRoute # {} =>
                \E i \in EnRoute :
                    trains'[i].status = StoppedAt(trains[i].status.destination)]_vars

\* a tick has passed in which a train arrived and another is still en route
C22_Witness ==
    /\ pc = "report"
    /\ travel_time > 0
    /\ \E i \in 1..Len(trains) : trains[i].status.kind = "StoppedAt"
    /\ \E i \in 1..Len(trains) : trains[i].status.kind = "DeliveringTo"

\* the position of the train a loaded package rides
Carrier(k) == find_train_index_by_id(trains, packages[k].status.train)

\* C23: after the arrival processing of a tick no package is loaded in a
\* stopped train: a package that rode a train arriving at station n is
\* Delivered by that train when n is its destination and dropped at n
\* otherwise, the arriving train's load is 0, and the packages riding the
\* trains still en route are unchanged.
C23_ArrivalUnloads ==
    [][pc = "arrive" =>
          /\ pc' = "report"
          /\ \A k \in 1..Len(packages) :
                /\ packages'[k].status.kind = "LoadedTo" =>
                      \E i \in 1..Len(trains) :
                          /\ trains'[i].id = packages'[k].status.train
                          /\ trains'[i].status.kind = "DeliveringTo"
                /\ packages[k].status.kind = "LoadedTo" =>
                      /\ Carrier(k) # 0
                      /\ LET i == Carrier(k)
                             n == trains'[i].status.origin
                         IN IF trains'[i].status.kind = "StoppedAt"
                            THEN packages'[k].status =
                                    IF packages[k].destination = n
                                    THEN Delivered(trains[i].id)
                                    ELSE DroppedAt(n, trains[i].id)
                            ELSE packages'[k] = packages[k]
          /\ \A i \in EnRoute :
                trains'[i].status.kind = "StoppedAt" => trains'[i].load_size = 0]_vars

\* a tick has passed in which a train delivered one package at its destination
\* and dropped another there to await its next leg, and stands empty
C23_Witness ==
    /\ pc = "report"
    /\ \E i \in 1..Len(trains), k \in 1..Len(packages), m \in 1..Len(packages) :
          /\ trains[i].status.kind = "StoppedAt"
          /\ trains[i].load_size = 0
          /\ packages[k].status = Delivered(trains[i].id)
          /\ packages[k].destination = trains[i].status.origin
          /\ packages[m].status = DroppedAt(trains[i].status.origin, trains[i].id)
          /\ packages[m].destination # trains[i].status.origin

\* package k is Delivered by a train (not at its creation)
DeliveredByTrain(k) ==
    packages[k].status.kind = "Delivered" /\ packages[k].status.train # DefaultTrainId

\* C24: a package delivered by train t is in the P2 list of t's report line
\* in exactly one tick, the tick in which t arrived at the package's
\* destination, and is Completed from the end of that tick onward; a package
\* in P1 of t's line is loaded in t at that instant.  In steps: a package
\* becomes Delivered by t only in the arrival of t at its destination; it is
\* Delivered by t only until the report of that tick; the report lists in P2
\* of t's line exactly the packages Delivered by t, which the sweep that ends
\* the tick makes Completed; and Completed is never left.
C24_ReportedOnce ==
    [][/\ \A k \in 1..Len(packages) :
             /\ DeliveredByTrain(k) => pc = "report"
             /\ packages[k].status = Completed => packages'[k].status = Completed
             /\ (~DeliveredByTrain(k) /\ DeliveredByTrain(k)') =>
                   /\ pc = "arrive"
                   /\ \E i \in EnRoute :
                         /\ packages'[k].status = Delivered(trains[i].id)
                         /\ trains[i].status.destination = packages[k].destination
                         /\ trains'[i].status = StoppedAt(packages[k].destination)
       /\ pc = "report" =>
             /\ Len(report') = Len(trains)
             /\ \A i \in 1..Len(trains), k \in 1..Len(packages) :
                   /\ report'[i].T = trains[i].id
                   /\ Contains(report'[i].P2, packages[k].id) <=>
                         packages[k].status = Delivered(trains[i].id)
                   /\ Contains(report'[i].P2, packages[k].id) =>
                         /\ trains[i].status = StoppedAt(packages[k].destination)
                         /\ packages'[k].status = Completed
                   /\ Contains(report'[i].P1, packages[k].id) =>
                         packages[k].status = LoadedTo(trains[i].id)]_vars

\* the last report listed a package in P2 of a train's line, and the package
\* is Completed since
C24_Witness ==
    \E i \in 1..Len(report), k \in 1..Len(packages) :
        /\ Contains(report[i].P2, packages[k].id)
        /\ packages[k].status = Completed

\* C25: within an iteration the tick's duration is added to the running
\* total before the report lines are written, so the W of every line of a
\* tick's report includes that tick's duration; W does not decrease from one
\* tick to the next, and the total returned is the sum of the durations.
C25_ReportAfterAccumulation ==
    [][pc = "report" =>
          /\ total_delivery_time' = total_delivery_time + travel_time
          /\ \A i \in 1..Len(report') :
                /\ report'[i].W = total_delivery_time'
                /\ i <= Len(report) => report'[i].W >= report[i].W
          /\ pc' = "idle" => result' = Minute(total_delivery_time')]_vars

\* the changes of kind of a package's status that the claim allows
StatusMoves ==
    {<<"DroppedAt", "LoadedTo">>, <<"LoadedTo", "Delivered">>,
     <<"LoadedTo", "DroppedAt">>, <<"Delivered", "Completed">>,
     <<"DroppedAt", "CantBeTransported">>, <<"CantBeTransported", "DroppedAt">>}

\* C26: a package changes in its status only, and only along awaiting ->
\* loaded, loaded -> Delivered, loaded -> awaiting, Delivered -> Completed,
\* awaiting -> CantBeTransported and CantBeTransported -> awaiting; Completed
\* is never left; and in the ticks of a run a package that is
\* CantBeTransported or Completed is not modified.
C26_StatusMoves ==
    [][\A k \in 1..Len(packages) :
          /\ [packages'[k] EXCEPT !.status = packages[k].status] = packages[k]
          /\ \/ packages'[k].status = packages[k].status
             \/ <<packages[k].status.kind, packages'[k].status.kind>> \in StatusMoves
          /\ packages[k].status = Completed => packages'[k] = packages[k]
          /\ (pc # "idle" /\ packages[k].status.kind = "CantBeTransported") =>
                packages'[k] = packages[k]]_vars

\* in a tick one package has just been delivered by a train while another
\* cannot be transported
C26_Witness ==
    /\ pc = "report"
    /\ \E k \in 1..Len(packages), m \in 1..Len(packages) :
          /\ DeliveredByTrain(k)
          /\ packages[m].status.kind = "CantBeTransported"

\* the positions of the packages awaiting pickup at station s
AwaitingAt(s) == {k \in Awaiting : packages[k].status.node = s}

\* the least-time route of package k
RouteOf(k) == get_least_time_path_to_deliver_package(nodes, packages[k])

\* C27: in a station step the anchor route is the least-time route with the
\* most stations among those of the packages awaiting at the station, that of
\* the earliest package among equals; and when the step commits, the selected
\* train leaves the station for the second station of the anchor route.
C27_AnchorRoute ==
    [][IsCommit =>
          LET s == nodes[node_index].id
              selected == find_train_index_by_id(
                              trains, find_largest_capacity_train_in_node(trains, s)[1])
          IN \E k \in AwaitingAt(s) :
                /\ \A j \in AwaitingAt(s) :
                      /\ Len(RouteOf(j)) <= Len(RouteOf(k))
                      /\ j < k => Len(RouteOf(j)) < Len(RouteOf(k))
                /\ RouteOf(k) \in SimplePaths(nodes, s, packages[k].destination)
                /\ \A p \in SimplePaths(nodes, s, packages[k].destination) :
                      get_travel_time_from_routes(nodes, RouteOf(k))
                          <= get_travel_time_from_routes(nodes, p)
                /\ trains'[selected].status.kind = "DeliveringTo"
                /\ trains'[selected].status.origin = s
                /\ trains'[selected].status.destination = RouteOf(k)[2]
                /\ \A i \in 1..Len(trains) : GivenLeg(i) => i = selected]_vars

\* a commit has sent a train from a station where two packages with routes of
\* equally many stations and different second stations awaited: toward the
\* second station of the earlier package's route
C27_Witness ==
    /\ start.called
    /\ Len(start.packages) = Len(packages)
    /\ \E k \in 1..Len(packages), j \in 1..Len(packages), i \in 1..Len(trains) :
          /\ k < j
          /\ start.packages[k].status.kind = "DroppedAt"
          /\ start.packages[j].status.kind = "DroppedAt"
          /\ start.packages[k].status.node = start.packages[j].status.node
          /\ start.packages[k].destination # start.packages[j].destination
          /\ Len(get_least_time_path_to_deliver_package(nodes, start.packages[k])) >= 2
          /\ Len(get_least_time_path_to_deliver_package(nodes, start.packages[k]))
                = Len(get_least_time_path_to_deliver_package(nodes, start.packages[j]))
          /\ get_least_time_path_to_deliver_package(nodes, start.packages[k])[2]
                # get_least_time_path_to_deliver_package(nodes, start.packages[j])[2]
          /\ total_delivery_time = 0
          /\ pc \in {"dispatch", "post", "arrive"}
          /\ trains[i].status.kind = "DeliveringTo"
          /\ trains[i].status.origin = start.packages[k].status.node
          /\ trains[i].status.destination
                = get_least_time_path_to_deliver_package(nodes, start.packages[k])[2]
          /\ packages[k].status = LoadedTo(trains[i].id)

\* the train and the package of the call of load_package that this step is
LoadedTrain == find_train_index_by_id(trains, query'[1].train_id)
LoadedPackage == find_package_index_by_id(packages, query'[1].package_id)

\* C28: the try-load.  A call of load_package with a package heavier than
\* the room left in the train (capacity less current load) changes neither
\* the train nor the package; with a package that fits, the train's load
\* grows by exactly the package's weight and the package becomes loaded in
\* that train; and nothing else changes.
C28_TryLoad ==
    [][query' # <<>> =>
          LET i == LoadedTrain
              k == LoadedPackage
          IN /\ nodes' = nodes
             /\ Len(trains') = Len(trains) /\ Len(packages') = Len(packages)
             /\ \A j \in 1..Len(trains) : j # i => trains'[j] = trains[j]
             /\ \A m \in 1..Len(packages) : m # k => packages'[m] = packages[m]
             /\ IF packages[k].weight > trains[i].max_capacity - trains[i].load_size
                THEN trains'[i] = trains[i] /\ packages'[k] = packages[k]
                ELSE /\ trains'[i] = [trains[i] EXCEPT
                                         !.load_size = @ + packages[k].weight]
                     /\ packages'[k] = [packages[k] EXCEPT
                                           !.status = LoadedTo(trains[i].id)]]_vars

\* load_package was called with a package that the empty train could carry
\* and that is heavier than the room left: the train keeps its load and the
\* package awaits
C28_Witness ==
    /\ query # <<>>
    /\ LET i == find_train_index_by_id(trains, query[1].train_id)
           k == find_package_index_by_id(packages, query[1].package_id)
       IN /\ trains[i].load_size > 0
          /\ packages[k].weight <= trains[i].max_capacity
          /\ packages[k].weight > trains[i].max_capacity - trains[i].load_size
          /\ packages[k].status.kind = "DroppedAt"

\* the summed weight of the packages, from package k on, loaded in the train
RECURSIVE WeightLoadedTo(_, _)
WeightLoadedTo(train_id, k) ==
    IF k > Len(packages) THEN 0
    ELSE (IF packages[k].status = LoadedTo(train_id) THEN packages[k].weight ELSE 0)
         + WeightLoadedTo(train_id, k + 1)

\* C29: in every reachable state the load of each train is the sum of the
\* weights of the packages loaded in it; so a train that carries no package
\* has load 0, and an unload never takes off more than was loaded.
C29_LoadIsSumOfWeights ==
    \A i \in 1..Len(trains) : trains[i].load_size = WeightLoadedTo(trains[i].id, 1)

\* a train carries two packages and its load is the sum of their weights
C29_Witness ==
    \E i \in 1..Len(trains), k \in 1..Len(packages), m \in 1..Len(packages) :
        /\ k # m
        /\ packages[k].status = LoadedTo(trains[i].id)
        /\ packages[m].status = LoadedTo(trains[i].id)
        /\ trains[i].load_size = packages[k].weight + packages[m].weight

\* C30: a dispatch pass ends: the loop at a station repeats its step only
\* after a commit that left packages waiting, and each such commit takes one
\* stopped train away from the station, so the loop repeats finitely often.
C30_StationLoopEnds ==
    (pc = "dispatch" /\ ~StepHere.abort /\ StepHere.result = "NotAllPackageLoaded") =>
        Len(list_trains_stopped_at_node(StepHere.trains, nodes[node_index].id))
            < Len(list_trains_stopped_at_node(trains, nodes[node_index].id))

=============================================================================
